---- MODULE Spec2Model ----
(***************************************************************************)
(* StatFilter (pipeline/stat_filter.go): a filter that turns each message  *)
(* it receives into one statsd-style Stat per configured metric template   *)
(* and hands it to a StatAccumulator.                                      *)
(*                                                                         *)
(* Strings that are interpolated (metric Name and Value) are sequences of  *)
(* tokens: a literal piece or a "@key" placeholder.  Resolved strings are  *)
(* ordinary strings.  A map[string]string is a function whose DOMAIN is    *)
(* the set of its keys.                                                    *)
(***************************************************************************)
EXTENDS Integers, Sequences, FiniteSets, TLC

\* ---------------------------------------------------------------- bounds
\* Number of work items the upstream runtime delivers in one run.
MaxItems == 2
\* Number of metric ids a configuration may define.
MaxMetrics == 2

\* ------------------------------------------------------------ input data
Lit(s) == [var |-> FALSE, text |-> s]
Ref(k) == [var |-> TRUE, text |-> k]

\* message.Field_STRING and one other value type of the message package.
Field_STRING == "STRING"
Field_INTEGER == "INTEGER"

\* Metric kinds a configuration may carry: the three supported ones and one
\* the switch in Run does not know.
Kinds == {"Counter", "Timer", "Gauge", "Histogram"}

\* type metric struct { Type_, Name, Value }
metric(t, n, v) == [Type_ |-> t, Name |-> n, Value |-> v]

MetricTemplates ==
    << metric("Counter", <<Ref("Hostname"), Lit(".404s")>>, <<Lit("1")>>),
       metric("Timer", <<Lit("latency")>>, <<Ref("elapsed_ms")>>),
       metric("Gauge", <<Ref("Logger"), Lit(".load")>>, <<Ref("Payload")>>),
       metric("Histogram", <<Ref("Type"), Lit(".sizes")>>, <<Ref("sub")>>) >>

MetricIds == 1..MaxMetrics

\* The map[string]metric values of a configuration: up to MaxMetrics ids,
\* each with one of the templates.  The ids are arbitrary and the map is
\* iterated in any order, so one assignment per multiset of templates is
\* enough: ids 1..n, templates in non-decreasing order.
MetricSets ==
    { [id \in DOMAIN f |-> MetricTemplates[f[id]]] :
        f \in { g \in UNION { [1..n -> DOMAIN MetricTemplates] : n \in 0..MaxMetrics } :
                  \A i, j \in DOMAIN g : i <= j => g[i] <= g[j] } }

Field(n, t, vs) == [Name |-> n, ValueType |-> t, ValueString |-> vs]

Message(l, h, t, p, fs) ==
    [Logger |-> l, Hostname |-> h, Type |-> t, Payload |-> p, Fields |-> fs]

\* One message without fields, and one whose fields cover: a string field
\* named like a metadata key, a field that is not string-typed (though its
\* ValueString is filled), a string
\* field without values, and two string fields of the same name.
Messages ==
    { Message("nginx", "web1", "access", "GET /", <<>>),
      Message("app", "web2", "timing", "",
              << Field("Hostname", Field_STRING, <<"fh">>),
                 Field("sub", Field_INTEGER, <<"9">>),
                 Field("Type", Field_STRING, <<>>),
                 Field("elapsed_ms", Field_STRING, <<"7">>),
                 Field("elapsed_ms", Field_STRING, <<"42", "43">>) >>) }

EmptyMap == [k \in {} |-> ""]

\* Capture maps the upstream matcher may attach to a work item.
UpstreamCaptures ==
    { [k \in {"Hostname", "elapsed_ms", "sub"} |->
          CASE k = "Hostname" -> "up" [] k = "elapsed_ms" -> "0" [] OTHER -> "x"] }

\* A PipelineCapture: the pack (its message), and the captures, which are a
\* nil map when isNil holds.
WorkItems ==
    { [Message |-> m, Captures |-> c, isNil |-> FALSE] :
          m \in Messages, c \in UpstreamCaptures }
    \cup { [Message |-> m, Captures |-> EmptyMap, isNil |-> TRUE] : m \in Messages }

\* Names an accumulator may be configured under, and the input runners a
\* registry may hold: one that implements StatAccumulator and one that
\* does not.
AccumNames == {"StatAccumInput", "stats"}
Runners == {"accumInput", "udpInput"}
IsStatAccumulator(runner) == runner = "accumInput"

\* The registries of input runners a pipeline may start with.
Registries ==
    { EmptyMap,
      [n \in {"StatAccumInput"} |-> "accumInput"],
      [n \in {"StatAccumInput"} |-> "udpInput"] }

ZeroStat == [Bucket |-> "", Value |-> "", Modifier |-> ""]
NoError == [format |-> "", arg |-> ""]

\* ------------------------------------------------------------------ state
VARIABLES
    InputRunners,   \* h.PipelineConfig().InputRunners: name -> runner
    metrics,        \* s.metrics
    statAccumName,  \* s.statAccumName
    statAccum,      \* the accumulator Run resolved ("" before the lookup)
    inChan,         \* fr.InChan(): indexes into items, in delivery order
    closed,         \* the runtime closed inChan
    items,          \* every PipelineCapture delivered so far
    pc,             \* position of Run
    cur,            \* index in items of plc / pack (0 before the first)
    captures,       \* Run's local captures
    stat,           \* Run's local stat
    remaining,      \* metric ids the range over s.metrics has yet to visit
    calls,          \* calls made on the collaborators since the last
                    \* receive from inChan, in order
    dropped,        \* dropped[k][id]: DropStat calls so far for item k, metric id
    recycled,       \* recycled[k]: Recycle calls so far for item k
    err,            \* Run's return value
    delivered       \* delivered[k]: the captures item k carried when the
                    \* runtime delivered it (empty for nil captures)

vars == << InputRunners, metrics, statAccumName, statAccum, inChan, closed,
           items, pc, cur, captures, stat, remaining, calls, dropped, recycled,
           err, delivered >>

\* ---------------------------------------------------------------- helpers
\* captures[k] = v
Put(m, k, v) == [x \in DOMAIN m \cup {k} |-> IF x = k THEN v ELSE m[x]]

\* Accessors of message.Message.
GetLogger(m) == m.Logger
GetHostname(m) == m.Hostname
GetType(m) == m.Type
GetPayload(m) == m.Payload
GetValueType(f) == f.ValueType
GetName(f) == f.Name

\* InitialCaptures when one map, made once, serves every work item that
\* comes without captures.
InitialCapturesOneMap(plc) == IF plc.isNil THEN captures ELSE plc.Captures

\* InitialCaptures when a new map is made for every work item.
InitialCapturesAlwaysNew(plc) == EmptyMap

\* captures = plc.Captures; if captures == nil { captures = make(...) }
InitialCaptures(plc) == IF plc.isNil THEN EmptyMap ELSE plc.Captures

\* LoadMetadata when "Payload" is loaded from the message's type.
LoadMetadataPayloadFromType(c, m) ==
    Put(Put(Put(Put(c, "Logger", GetLogger(m)),
                "Hostname", GetHostname(m)),
            "Type", GetType(m)),
        "Payload", GetType(m))

\* The four assignments that load the message's metadata into captures.
LoadMetadata(c, m) ==
    Put(Put(Put(Put(c, "Logger", GetLogger(m)),
                "Hostname", GetHostname(m)),
            "Type", GetType(m)),
        "Payload", GetPayload(m))

\* Qualifies when the field's type is not looked at.
QualifiesAnyType(f) == Len(f.ValueString) > 0

\* A field is loaded when it is string-typed and has a value.
Qualifies(f) == GetValueType(f) = Field_STRING /\ Len(f.ValueString) > 0

\* FieldValue when the last value of the field is taken.
FieldValueLast(f) == f.ValueString[Len(f.ValueString)]

\* The value a loaded field contributes.
FieldValue(f) == f.ValueString[1]

\* for _, field := range pack.Message.Fields { ... }, in field order.
RECURSIVE LoadFields(_, _)
LoadFields(c, fields) ==
    IF fields = <<>> THEN c
    ELSE LoadFields(IF Qualifies(Head(fields))
                        THEN Put(c, GetName(Head(fields)), FieldValue(Head(fields)))
                        ELSE c,
                    Tail(fields))

\* The capture map Run resolves the templates of plc against.
AssembleCaptures(plc) ==
    LoadFields(LoadMetadata(InitialCaptures(plc), plc.Message), plc.Message.Fields)

\* InterpolateString(formatRegexp, subs): every placeholder whose key is in
\* subs is replaced by its value; other placeholders pass through.
RECURSIVE InterpolateString(_, _)
InterpolateString(tokens, subs) ==
    IF tokens = <<>> THEN ""
    ELSE LET t == Head(tokens)
             piece == IF ~t.var THEN t.text
                      ELSE IF t.text \in DOMAIN subs THEN subs[t.text]
                      ELSE "@" \o t.text
         IN  piece \o InterpolateString(Tail(tokens), subs)

\* Modifier without the assignment of the "Counter" case.
ModifierCounterKeeps(kind, prev) ==
    CASE kind = "Timer" -> "ms"
      [] kind = "Gauge" -> "g"
      [] OTHER -> prev

\* switch met.Type_ { ... }: stat.Modifier after the switch, given its value
\* before it.
Modifier(kind, prev) ==
    CASE kind = "Counter" -> ""
      [] kind = "Timer" -> "ms"
      [] kind = "Gauge" -> "g"
      [] OTHER -> prev

\* Resolve when the name is interpolated into Value and the value into
\* Bucket.
ResolveSwapped(met, c, prev) ==
    [Bucket |-> InterpolateString(met.Value, c),
     Modifier |-> Modifier(met.Type_, prev.Modifier),
     Value |-> InterpolateString(met.Name, c)]

\* stat after the three assignments of one iteration of the metrics loop.
Resolve(met, c, prev) ==
    [Bucket |-> InterpolateString(met.Name, c),
     Modifier |-> Modifier(met.Type_, prev.Modifier),
     Value |-> InterpolateString(met.Value, c)]

\* LookupAccum when a missing name does not end Run.
LookupAccumIgnoresMissing(runners, name) ==
    IF name \notin DOMAIN runners
        THEN [ok |-> TRUE, accum |-> "", err |-> NoError]
    ELSE IF ~IsStatAccumulator(runners[name])
        THEN [ok |-> FALSE, accum |-> "",
              err |-> [format |-> "Input '%s' is not a StatAccumulator", arg |-> name]]
    ELSE [ok |-> TRUE, accum |-> runners[name], err |-> NoError]

\* LookupAccum when the type assertion's result is not checked.
LookupAccumIgnoresType(runners, name) ==
    IF name \notin DOMAIN runners
        THEN [ok |-> FALSE, accum |-> "",
              err |-> [format |-> "No Input named: '%s'", arg |-> name]]
    ELSE [ok |-> TRUE, accum |-> runners[name], err |-> NoError]

\* AfterAssembly when Run fills a copy of the item's captures.
AfterAssemblyOfCopy(plc, c) == plc

\* The work item once Run has assembled the captures c for it: captures is
\* plc.Captures itself unless that is nil, so what Run writes is written
\* into the item's map; the pack and its message are only read.
AfterAssembly(plc, c) == IF plc.isNil THEN plc ELSE [plc EXCEPT !.Captures = c]

\* The two lookups at the head of Run: the accumulator it resolves and the
\* error it returns.
LookupAccum(runners, name) ==
    IF name \notin DOMAIN runners
        THEN [ok |-> FALSE, accum |-> "",
              err |-> [format |-> "No Input named: '%s'", arg |-> name]]
    ELSE IF ~IsStatAccumulator(runners[name])
        THEN [ok |-> FALSE, accum |-> "",
              err |-> [format |-> "Input '%s' is not a StatAccumulator", arg |-> name]]
    ELSE [ok |-> TRUE, accum |-> runners[name], err |-> NoError]

\* TakeFromChan when the newest item is taken first.
TakeFromChanNewest(ch) == [item |-> ch[Len(ch)], rest |-> SubSeq(ch, 1, Len(ch) - 1)]

\* for plc := range inChan: the item the loop takes and what stays queued.
TakeFromChan(ch) == [item |-> Head(ch), rest |-> Tail(ch)]

\* StillToVisit when a rejection breaks out of the metrics loop.
StillToVisitBreakOnReject(rem, id, ok) == IF ok THEN rem \ {id} ELSE {}

\* The metrics loop goes on to every id it has not visited, whatever
\* DropStat returned.
StillToVisit(rem, id, ok) == rem \ {id}

\* MustLog when the result of DropStat is not negated.
MustLogOnAccept(ok) == ok

\* if !statAccum.DropStat(stat) { fr.LogError(...) }
MustLog(ok) == ~ok

\* LoopDone when pack.Recycle() sits inside the metrics loop.
LoopDoneInsideLoop(rem) == TRUE

\* The metrics loop is over: pack.Recycle() is next.
LoopDone(rem) == rem = {}

\* DropTarget when the accumulator is looked up for every call.
DropTargetLookedUpAgain(acc, runners, name) == LookupAccum(runners, name).accum

\* statAccum.DropStat(stat): the accumulator the call goes to is the one Run
\* holds in statAccum, whatever the registry holds under the name by now.
DropTarget(acc, runners, name) == acc

\* StreamEnded when closure ends the loop although items are still queued.
StreamEndedOnClose(ch, cl) == cl

\* StreamEnded when an empty channel ends the loop although it is open.
StreamEndedOnEmpty(ch, cl) == ch = <<>>

\* The range over inChan ends: the channel is closed and drained.
StreamEnded(ch, cl) == ch = <<>> /\ cl

DropStatCall(k, id, s, ok, acc) ==
    [op |-> "DropStat", item |-> k, id |-> id, stat |-> s, ok |-> ok, accum |-> acc]
LogErrorCall(k, id, s) ==
    [op |-> "LogError", item |-> k, id |-> id,
     format |-> "Undelivered stat: %s", stat |-> s]
RecycleCall(k) == [op |-> "Recycle", item |-> k]

\* ------------------------------------------------------------------- Init
\* State after Init(config), before Run: the configuration is any template
\* set and accumulator name, the registry any set of inputs.
Init ==
    /\ InputRunners \in Registries
    /\ metrics \in MetricSets
    /\ statAccumName \in AccumNames
    /\ statAccum = ""
    /\ inChan = <<>>
    /\ closed = FALSE
    /\ items = <<>>
    /\ pc = "Unstarted"
    /\ cur = 0
    /\ captures = EmptyMap
    /\ stat = ZeroStat
    /\ remaining = {}
    /\ calls = <<>>
    /\ dropped = [k \in 1..MaxItems |-> [id \in MetricIds |-> 0]]
    /\ recycled = [k \in 1..MaxItems |-> 0]
    /\ err = NoError
    /\ delivered = <<>>

\* ---------------------------------------------------------------- actions
\* The runtime puts a work item on the filter's input channel.
Deliver(plc) ==
    /\ ~closed
    /\ Len(items) < MaxItems
    /\ items' = Append(items, plc)
    /\ inChan' = Append(inChan, Len(items) + 1)
    /\ delivered' = Append(delivered, plc.Captures)
    /\ UNCHANGED << InputRunners, metrics, statAccumName, statAccum, closed,
                    pc, cur, captures, stat, remaining, calls, dropped,
                    recycled, err >>

\* The runtime closes the input channel.
Close ==
    /\ ~closed
    /\ closed' = TRUE
    /\ UNCHANGED << InputRunners, metrics, statAccumName, statAccum, inChan,
                    items, pc, cur, captures, stat, remaining, calls, dropped,
                    recycled, err, delivered >>

\* Run, up to the range loop: the accumulator lookup.
RunStart ==
    /\ pc = "Unstarted"
    /\ LET r == LookupAccum(InputRunners, statAccumName)
       IN  /\ statAccum' = r.accum
           /\ err' = r.err
           /\ pc' = IF r.ok THEN "Running" ELSE "StartupError"
    /\ UNCHANGED << InputRunners, metrics, statAccumName, inChan, closed,
                    items, cur, captures, stat, remaining, calls, dropped,
                    recycled, delivered >>

\* One work item leaves the channel; its captures are assembled (in the
\* item's own map when it has one) and the metrics loop begins.
Receive ==
    /\ pc = "Running"
    /\ inChan # <<>>
    /\ LET k == TakeFromChan(inChan).item
           c == AssembleCaptures(items[k])
       IN  /\ cur' = k
           /\ captures' = c
           /\ items' = [items EXCEPT ![k] = AfterAssembly(items[k], c)]
    /\ inChan' = TakeFromChan(inChan).rest
    /\ remaining' = DOMAIN metrics
    /\ calls' = << >>
    /\ pc' = "Dispatching"
    /\ UNCHANGED << InputRunners, metrics, statAccumName, statAccum, closed,
                    stat, dropped, recycled, err, delivered >>

\* One iteration of the metrics loop, for the id the map iteration yields;
\* ok is what DropStat returns.
Dispatch(id, ok) ==
    /\ pc = "Dispatching"
    /\ id \in remaining
    /\ LET s == Resolve(metrics[id], captures, stat)
       IN  /\ stat' = s
           /\ calls' = calls \o << DropStatCall(cur, id, s, ok,
                                   DropTarget(statAccum, InputRunners, statAccumName)) >>
                             \o (IF MustLog(ok) THEN << LogErrorCall(cur, id, s) >>
                                 ELSE << >>)
    /\ dropped' = [dropped EXCEPT ![cur][id] = @ + 1]
    /\ remaining' = StillToVisit(remaining, id, ok)
    /\ UNCHANGED << InputRunners, metrics, statAccumName, statAccum, inChan,
                    closed, items, pc, cur, captures, recycled, err, delivered >>

\* pack.Recycle(), then back to the head of the range loop.
Recycle ==
    /\ pc = "Dispatching"
    /\ LoopDone(remaining)
    /\ calls' = Append(calls, RecycleCall(cur))
    /\ recycled' = [recycled EXCEPT ![cur] = @ + 1]
    /\ remaining' = {}
    /\ pc' = "Running"
    /\ UNCHANGED << InputRunners, metrics, statAccumName, statAccum, inChan,
                    closed, items, cur, captures, stat, dropped, err, delivered >>

\* The range loop ends on a closed, drained channel and Run returns nil.
RunReturn ==
    /\ pc = "Running"
    /\ StreamEnded(inChan, closed)
    /\ pc' = "Stopped"
    /\ UNCHANGED << InputRunners, metrics, statAccumName, statAccum, inChan,
                    closed, items, cur, captures, stat, remaining, calls,
                    dropped, recycled, err, delivered >>

Next ==
    \/ \E plc \in WorkItems : Deliver(plc)
    \/ Close
    \/ RunStart
    \/ Receive
    \/ \E id \in MetricIds, ok \in BOOLEAN : Dispatch(id, ok)
    \/ Recycle
    \/ RunReturn

Spec == Init /\ [][Next]_vars

\* The pipeline registers, replaces or removes input runners while the
\* filter exists.
Reregister ==
    /\ InputRunners' \in Registries \ {InputRunners}
    /\ UNCHANGED << metrics, statAccumName, statAccum, inChan, closed, items,
                    pc, cur, captures, stat, remaining, calls, dropped,
                    recycled, err, delivered >>

RegistryNext == Next \/ Reregister

\* The runs in which the registry of input runners changes under the filter.
RegistrySpec == Init /\ [][RegistryNext]_vars

\* The steps of Run.  Run is one goroutine, so at most one kind of step is
\* enabled at a time.
RunStep ==
    \/ RunStart
    \/ Receive
    \/ \E id \in MetricIds, ok \in BOOLEAN : Dispatch(id, ok)
    \/ Recycle
    \/ RunReturn

\* The goroutine of Run is always scheduled again and DropStat, LogError
\* and Recycle return: a step of Run that can be taken is taken.  The
\* runtime is under no obligation to deliver or to close.
Fairness == WF_vars(RunStep)

\* Whether Run gets to the end of the stream does not depend on what the
\* items carry: in the runs of LiveSpec the runtime delivers the work items
\* that come without upstream captures.
LiveWorkItems == { plc \in WorkItems : plc.isNil }

LiveNext ==
    \/ \E plc \in LiveWorkItems : Deliver(plc)
    \/ Close
    \/ RunStep

LiveSpec == Init /\ [][LiveNext]_vars /\ Fairness

\* The orders in which a range over a map with the key set S may yield
\* the keys.
Orders(S) ==
    { o \in [1..Cardinality(S) -> S] :
        \A i, j \in 1..Cardinality(S) : i # j => o[i] # o[j] }

\* The stats one run of the metrics loop submits, in order, when the range
\* over s.metrics yields the ids in the given order, the captures are c and
\* stat holds prev when the loop begins.
RECURSIVE Emissions(_, _, _)
Emissions(order, c, prev) ==
    IF order = <<>> THEN <<>>
    ELSE LET s == Resolve(metrics[Head(order)], c, prev)
         IN  << s >> \o Emissions(Tail(order), c, s)

\* ------------------------------------------------------------- properties
Range(f) == { f[i] : i \in DOMAIN f }

\* Positions in calls of the calls of one kind.
DropStats == { i \in DOMAIN calls : calls[i].op = "DropStat" }
LogErrors == { i \in DOMAIN calls : calls[i].op = "LogError" }
Recycles == { i \in DOMAIN calls : calls[i].op = "Recycle" }

\* Item k has left the input channel.
Received(k) == k \in 1..Len(items) /\ k \notin Range(inChan)
\* Item k is the one whose metrics loop is running.
InLoop(k) == k = cur /\ pc = "Dispatching"

KindOf(i) == metrics[calls[i].id].Type_

\* C1: every emission submitted to the accumulator for a template whose kind
\* is none of "Counter", "Timer", "Gauge" has the empty Modifier, whatever
\* was processed before it.
C1_UnknownKindEmptyModifier ==
    \A i \in DropStats :
        KindOf(i) \notin {"Counter", "Timer", "Gauge"} => calls[i].stat.Modifier = ""

\* C2: every emission submitted to the accumulator has Modifier "ms" for a
\* Timer template, "g" for a Gauge template and "" for a Counter template,
\* whatever was processed before it.
C2_KnownKindModifier ==
    \A i \in DropStats :
        /\ KindOf(i) = "Timer" => calls[i].stat.Modifier = "ms"
        /\ KindOf(i) = "Gauge" => calls[i].stat.Modifier = "g"
        /\ KindOf(i) = "Counter" => calls[i].stat.Modifier = ""

\* A Counter emission was submitted right after a Timer or Gauge emission.
C2_Witness ==
    \E i, j \in DropStats :
        /\ i < j
        /\ \A m \in DropStats : ~(i < m /\ m < j)
        /\ KindOf(i) \in {"Timer", "Gauge"}
        /\ KindOf(j) = "Counter"

\* C3: for every received message and every configured template, DropStat is
\* called exactly once for that pair once the metrics loop has visited the
\* template (never before, never twice), whatever DropStat returned for the
\* other templates of the message.
C3_DropStatOncePerTemplate ==
    \A k \in 1..Len(items), id \in DOMAIN metrics :
        dropped[k][id] =
            IF Received(k) /\ ~(InLoop(k) /\ id \in remaining) THEN 1 ELSE 0

\* A message is recycled whose first emission was rejected and whose other
\* template was submitted after that rejection.
C3_Witness ==
    \E i, j \in DropStats :
        /\ i < j
        /\ calls[i].id # calls[j].id
        /\ ~calls[i].ok
        /\ recycled[cur] = 1
        /\ \A id \in DOMAIN metrics : dropped[cur][id] = 1

\* C4: every received message is recycled exactly once, when its metrics
\* loop is over: DropStat has then been called for every configured
\* template of the message and is not called for it afterwards.
C4_RecycleOnceAfterAllTemplates ==
    /\ \A k \in 1..Len(items) :
          /\ recycled[k] = IF Received(k) /\ ~InLoop(k) THEN 1 ELSE 0
          /\ recycled[k] > 0 => \A id \in DOMAIN metrics : dropped[k][id] = 1
    /\ \A r \in Recycles :
          /\ \A id \in DOMAIN metrics :
                \E i \in DropStats : i < r /\ calls[i].id = id
          /\ \A i \in DropStats : i < r

\* A message with two or more templates, all rejected, has been recycled,
\* after a message that was recycled too.
C4_Witness ==
    /\ Recycles # {}
    /\ Cardinality(DOMAIN metrics) >= 2
    /\ \A i \in DropStats : ~calls[i].ok
    /\ cur = 2
    /\ recycled[1] = 1

\* C5: LogError is called exactly once for each DropStat call that returned
\* false, right after it and with the emission that was rejected; it is
\* never called for a DropStat call that returned true; and no message and
\* template is submitted twice.
C5_LogErrorOncePerRejection ==
    /\ \A i \in DropStats :
          ~calls[i].ok =>
              /\ i + 1 \in LogErrors
              /\ calls[i + 1].stat = calls[i].stat
              /\ calls[i + 1].item = calls[i].item
              /\ calls[i + 1].id = calls[i].id
    /\ \A l \in LogErrors :
          /\ l - 1 \in DropStats
          /\ ~calls[l - 1].ok
    /\ \A k \in 1..Len(items), id \in DOMAIN metrics : dropped[k][id] <= 1

\* One message had one emission accepted and another rejected and logged.
C5_Witness ==
    \E i, j \in DropStats :
        /\ calls[i].ok
        /\ ~calls[j].ok
        /\ j + 1 \in LogErrors

\* Run has returned a startup error and has done nothing else: no item has
\* left the channel and no collaborator was called.
NeverRan ==
    /\ pc = "StartupError"
    /\ err # NoError
    /\ cur = 0
    /\ inChan = [i \in 1..Len(items) |-> i]
    /\ calls = <<>>

\* C6: if no input runner is registered under the configured accumulator
\* name when Run starts, Run returns a startup error and never enters
\* Running: it receives no work item and calls DropStat, LogError and
\* Recycle zero times, whatever waits in the stream.
C6_NoInputNamed ==
    (pc # "Unstarted" /\ statAccumName \notin DOMAIN InputRunners) => NeverRan

\* Run has failed on a missing name while the stream holds items and is
\* closed.
C6_Witness ==
    /\ pc = "StartupError"
    /\ statAccumName \notin DOMAIN InputRunners
    /\ Len(inChan) = MaxItems
    /\ closed

\* C7: if the input runner registered under the configured accumulator name
\* is not a StatAccumulator when Run starts, Run returns a startup error
\* that names the configured target and never enters Running.
C7_NotAStatAccumulator ==
    ( /\ pc # "Unstarted"
      /\ statAccumName \in DOMAIN InputRunners
      /\ ~IsStatAccumulator(InputRunners[statAccumName]) )
    => /\ NeverRan
       /\ err.format = "Input '%s' is not a StatAccumulator"
       /\ err.arg = statAccumName

\* Run has failed on a runner that is no accumulator while the stream holds
\* items.
C7_Witness ==
    /\ pc = "StartupError"
    /\ statAccumName \in DOMAIN InputRunners
    /\ ~IsStatAccumulator(InputRunners[statAccumName])
    /\ inChan # <<>>

\* The message accessor behind each metadata key.
MetadataKeys == {"Logger", "Hostname", "Type", "Payload"}
Accessor(key, m) ==
    CASE key = "Logger" -> GetLogger(m)
      [] key = "Hostname" -> GetHostname(m)
      [] key = "Type" -> GetType(m)
      [] key = "Payload" -> GetPayload(m)

\* Field i of m is string-typed with a value, and so is some later field of
\* the same name.
Shadowed(m, i) ==
    \E j \in DOMAIN m.Fields :
        j > i /\ Qualifies(m.Fields[j]) /\ GetName(m.Fields[j]) = GetName(m.Fields[i])

\* m has a string-typed field with a value under the name key.
HasStringField(m, key) ==
    \E i \in DOMAIN m.Fields : Qualifies(m.Fields[i]) /\ GetName(m.Fields[i]) = key

\* C8 (as stated): for a message without upstream captures, the capture map
\* its templates are resolved against holds under "Logger", "Hostname",
\* "Type" and "Payload" the values of the message's accessors.
C8_MetadataEqualsAccessors ==
    (cur > 0 /\ items[cur].isNil) =>
        \A key \in MetadataKeys :
            /\ key \in DOMAIN captures
            /\ captures[key] = Accessor(key, items[cur].Message)

\* C8 (amended): for a message without upstream captures, the capture map
\* holds the four metadata keys, each with the value of the message's
\* accessor unless the message has a string-typed field with a value under
\* that name.
C8_MetadataUnlessField ==
    (cur > 0 /\ items[cur].isNil) =>
        \A key \in MetadataKeys :
            /\ key \in DOMAIN captures
            /\ ~HasStringField(items[cur].Message, key)
                  => captures[key] = Accessor(key, items[cur].Message)

\* A message without upstream captures that has a string field named
\* "Hostname" is being resolved.
C8_Witness ==
    /\ pc = "Dispatching"
    /\ items[cur].isNil
    /\ HasStringField(items[cur].Message, "Hostname")
    /\ captures["Payload"] = GetPayload(items[cur].Message)

\* C9 (as stated): for every string-typed field of the message with a value,
\* the capture map holds the field's first string value under the field's
\* name, also when several fields share a name.
C9_EveryStringField ==
    cur > 0 =>
        \A i \in DOMAIN items[cur].Message.Fields :
            LET f == items[cur].Message.Fields[i]
            IN  Qualifies(f) =>
                    /\ GetName(f) \in DOMAIN captures
                    /\ captures[GetName(f)] = f.ValueString[1]

\* C9 (amended): for every string-typed field of the message with a value
\* that no later such field of the same name follows, the capture map holds
\* the field's first string value under the field's name, over any metadata
\* key or upstream capture of that name.
C9_LastStringFieldOfName ==
    cur > 0 =>
        \A i \in DOMAIN items[cur].Message.Fields :
            LET f == items[cur].Message.Fields[i]
            IN  (Qualifies(f) /\ ~Shadowed(items[cur].Message, i)) =>
                    /\ GetName(f) \in DOMAIN captures
                    /\ captures[GetName(f)] = f.ValueString[1]

\* A message is being resolved whose string fields collide with a metadata
\* key, with upstream captures and with each other, one of them having
\* several values.
C9_Witness ==
    /\ pc = "Dispatching"
    /\ ~items[cur].isNil
    /\ \E i, j, l \in DOMAIN items[cur].Message.Fields :
          LET m == items[cur].Message
              f == m.Fields[i]
              g == m.Fields[j]
          IN  /\ Qualifies(f) /\ GetName(f) \in MetadataKeys
              /\ Qualifies(g) /\ Len(g.ValueString) > 1 /\ ~Shadowed(m, j)
              /\ Shadowed(m, l) /\ GetName(m.Fields[l]) = GetName(g)
              /\ \E c \in UpstreamCaptures :
                    GetName(g) \in DOMAIN c /\ c[GetName(g)] # captures[GetName(g)]

\* Some call has been made for item k.
Started(k) == recycled[k] > 0 \/ \E id \in DOMAIN metrics : dropped[k][id] > 0
\* Every call item k is due has been made, and none twice.
Finished(k) == recycled[k] = 1 /\ \A id \in DOMAIN metrics : dropped[k][id] = 1

\* C10: work items are processed one at a time in delivery order: when a
\* call is made for an item, every DropStat call and the Recycle of each
\* item delivered before it have been made, and the calls since the last
\* receive are all for the one item received.
C10_ItemsInOrder ==
    /\ \A k \in 1..Len(items) :
          Started(k) => \A h \in 1..(k - 1) : Finished(h)
    /\ \A i \in DOMAIN calls : calls[i].item = cur

\* The second item is in its metrics loop, with an emission submitted, after
\* the first was resolved and recycled.
C10_Witness ==
    /\ Len(items) >= 2
    /\ InLoop(2)
    /\ DropStats # {}
    /\ Finished(1)
    /\ DOMAIN metrics # {}

\* C11: once startup has succeeded and the runtime has closed the input
\* stream, Run eventually returns without error in the Stopped state, and by
\* then every item that was delivered has had each of its templates
\* submitted and has been recycled.
C11_ClosedStreamStops ==
    (closed /\ pc \in {"Running", "Dispatching"})
        ~> ( /\ pc = "Stopped"
             /\ err = NoError
             /\ \A k \in 1..Len(items) : Finished(k) )

\* Run has stopped after the runtime delivered all its items to a filter
\* with templates.
C11_Witness ==
    /\ pc = "Stopped"
    /\ err = NoError
    /\ Len(items) = MaxItems
    /\ DOMAIN metrics # {}
    /\ \A k \in 1..Len(items) : Finished(k)

\* The stat submitted for metric id when the loop visits the ids in order.
EmissionFor(order, id, c, prev) ==
    Emissions(order, c, prev)[CHOOSE i \in DOMAIN order : order[i] = id]

\* C12: for one message and its capture mapping, the emission submitted for
\* each template is the same under any two orders in which the metrics
\* loop may visit the templates.
C12_OrderIndependent ==
    (pc = "Dispatching" /\ calls = <<>>) =>
        \A o1, o2 \in Orders(DOMAIN metrics), id \in DOMAIN metrics :
            EmissionFor(o1, id, captures, stat) = EmissionFor(o2, id, captures, stat)

\* The fully assembled capture mapping of item k: the captures it was
\* delivered with, then the metadata, then the string fields.
FullyAssembled(k) ==
    LoadFields(LoadMetadata(delivered[k], items[k].Message),
               items[k].Message.Fields)

\* C13: every submitted emission has as Bucket the template's Name and as
\* Value the template's Value, each interpolated with the message's fully
\* assembled capture mapping, which does not change while the templates are
\* resolved; so "@Hostname.404s" with Hostname "web1" gives the bucket
\* "web1.404s" and "@elapsed_ms" with elapsed_ms = "42" gives the value
\* "42".
C13_BucketAndValueInterpolated ==
    /\ cur > 0 => captures = FullyAssembled(cur)
    /\ \A i \in DropStats :
          LET met == metrics[calls[i].id]
              C == FullyAssembled(calls[i].item)
          IN  /\ calls[i].stat.Bucket = InterpolateString(met.Name, C)
              /\ calls[i].stat.Value = InterpolateString(met.Value, C)
              /\ (met.Name = << Ref("Hostname"), Lit(".404s") >> /\ C["Hostname"] = "web1")
                    => calls[i].stat.Bucket = "web1.404s"
              /\ ( /\ met.Value = << Ref("elapsed_ms") >>
                    /\ "elapsed_ms" \in DOMAIN C
                    /\ C["elapsed_ms"] = "42" )
                    => calls[i].stat.Value = "42"

\* The emission {latency, 42, ms} was submitted for a message with a string
\* field elapsed_ms, and so was the emission {fh.404s, 1, ""} of a Counter
\* whose name takes the message's Hostname field.
C13_Witness ==
    /\ cur > 0
    /\ HasStringField(items[cur].Message, "elapsed_ms")
    /\ \E i, j \in DropStats :
          /\ calls[i].stat = [Bucket |-> "latency", Value |-> "42", Modifier |-> "ms"]
          /\ calls[j].stat = [Bucket |-> "fh.404s", Value |-> "1", Modifier |-> ""]

\* C14: for a work item with upstream captures, the capture mapping keeps
\* every upstream key that is neither a metadata key nor the name of a
\* string field with a value, with its upstream value; and an upstream
\* capture under a metadata key gives way to the message accessor's value
\* when no such field has that name.
C14_UpstreamKept ==
    (cur > 0 /\ ~items[cur].isNil) =>
        \A key \in DOMAIN delivered[cur] :
            ~HasStringField(items[cur].Message, key) =>
                /\ key \in DOMAIN captures
                /\ captures[key] = IF key \in MetadataKeys
                                       THEN Accessor(key, items[cur].Message)
                                       ELSE delivered[cur][key]

\* A message is being resolved whose upstream captures hold a metadata key
\* with another value than the accessor's, now replaced, and a key the
\* message has only a field of another type for, kept.
C14_Witness ==
    /\ pc = "Dispatching"
    /\ ~items[cur].isNil
    /\ \E key \in DOMAIN delivered[cur] \cap MetadataKeys :
          /\ ~HasStringField(items[cur].Message, key)
          /\ delivered[cur][key] # Accessor(key, items[cur].Message)
          /\ captures[key] = Accessor(key, items[cur].Message)
    /\ \E key \in DOMAIN delivered[cur] \ MetadataKeys :
          /\ ~HasStringField(items[cur].Message, key)
          /\ captures[key] = delivered[cur][key]

\* The capture mapping of item k before its fields are loaded.
BeforeFields(k) == LoadMetadata(delivered[k], items[k].Message)

\* The capture mapping of item k after its first n fields are loaded.
AfterFields(k, n) ==
    LoadFields(BeforeFields(k), SubSeq(items[k].Message.Fields, 1, n))

C16_OnlyClosureEndsRunning ==
    [][ (pc \in {"Running", "Dispatching"} /\ pc' \notin {"Running", "Dispatching"})
            => /\ pc = "Running"
               /\ pc' = "Stopped"
               /\ closed
               /\ inChan = <<>>
               /\ err' = NoError ]_vars

\* Run waits at the head of the loop on an open, empty stream after a
\* message all of whose emissions were rejected.
C16_Witness ==
    /\ pc = "Running"
    /\ ~closed
    /\ inChan = <<>>
    /\ Recycles # {}
    /\ Cardinality(DropStats) >= 2
    /\ \A i \in DropStats : ~calls[i].ok

\* The names of the string fields of m that have a value.
StringFieldNames(m) ==
    { GetName(m.Fields[i]) : i \in { j \in DOMAIN m.Fields : Qualifies(m.Fields[j]) } }

\* C17: capture values never leak between messages.  The mapping a message
\* is resolved against has as keys the four metadata keys, the names of the
\* message's own string fields with a value and, when the work item came
\* with captures, that item's upstream keys, and nothing else; its values
\* come from that item alone; and the captures held by the other work items
\* are as delivered, or as their own processing left them.
C17_NoLeakBetweenMessages ==
    /\ cur > 0 =>
          /\ DOMAIN captures =
                (IF items[cur].isNil THEN {} ELSE DOMAIN delivered[cur])
                    \cup MetadataKeys \cup StringFieldNames(items[cur].Message)
          /\ captures = FullyAssembled(cur)
    /\ \A k \in 1..Len(items) :
          items[k].Captures =
              IF Received(k) /\ ~items[k].isNil THEN FullyAssembled(k) ELSE delivered[k]

\* A message without fields and without upstream captures is being
\* resolved after a message with string fields and upstream captures.
C17_Witness ==
    /\ pc = "Dispatching"
    /\ cur = 2
    /\ items[2].isNil
    /\ items[2].Message.Fields = <<>>
    /\ ~items[1].isNil
    /\ StringFieldNames(items[1].Message) # {}
    /\ DOMAIN captures = MetadataKeys

\* C19: for a work item that came with a capture mapping, Run writes into
\* that mapping itself: from its receipt on, the mapping the work item holds
\* is the one Run resolves against, with the four metadata keys and the
\* name of every string field with a value, upstream values under those
\* keys overwritten; and no step changes the message of a work item.
C19_WrittenInPlace ==
    /\ [](\A k \in 1..Len(items) :
            (Received(k) /\ ~items[k].isNil) =>
                /\ k = cur => items[k].Captures = captures
                /\ \A key \in MetadataKeys \cup StringFieldNames(items[k].Message) :
                      /\ key \in DOMAIN items[k].Captures
                      /\ items[k].Captures[key] = FullyAssembled(k)[key])
    /\ [][\A k \in 1..Len(items) : items'[k].Message = items[k].Message]_vars

\* A work item has been processed whose mapping held, when delivered, other
\* values under a metadata key and under a string field's name than it
\* holds now.
C19_Witness ==
    /\ cur > 0
    /\ ~items[cur].isNil
    /\ recycled[cur] = 1
    /\ \E key \in DOMAIN delivered[cur] \cap MetadataKeys :
          items[cur].Captures[key] # delivered[cur][key]
    /\ \E key \in (DOMAIN delivered[cur] \cap StringFieldNames(items[cur].Message))
                    \ MetadataKeys :
          items[cur].Captures[key] # delivered[cur][key]
    /\ MetadataKeys \subseteq DOMAIN items[cur].Captures

\* C18: the accumulator is looked up once, when Run starts and before any
\* work item is received; Run does not resolve it again, every DropStat call
\* goes to it whatever the registry holds afterwards, and no step changes
\* the template set or the configured accumulator name.
C18_AccumulatorResolvedOnce ==
    /\ [](pc = "Unstarted" => (cur = 0 /\ statAccum = ""))
    /\ [](\A i \in DropStats :
            calls[i].accum = statAccum /\ IsStatAccumulator(statAccum))
    /\ [][ /\ metrics' = metrics
           /\ statAccumName' = statAccumName
           /\ (pc = "Unstarted" /\ pc' = "Running")
                 => (statAccum' = InputRunners[statAccumName] /\ inChan' = inChan)
           /\ pc # "Unstarted" => statAccum' = statAccum ]_vars

\* An emission is being submitted to the accumulator found at start while
\* the registry no longer holds an accumulator under the configured name.
C18_Witness ==
    /\ pc = "Dispatching"
    /\ DropStats # {}
    /\ IsStatAccumulator(statAccum)
    /\ \/ statAccumName \notin DOMAIN InputRunners
       \/ InputRunners[statAccumName] # statAccum

====
